---- MODULE Spec2Model ----
(***************************************************************************)
(* Model of app.py, the Streamlit script that computes the acceptable      *)
(* dried-blood-spot (DBS) diameter interval and draws it.                  *)
(*                                                                         *)
(* Streamlit re-executes the whole script each time a sidebar widget       *)
(* changes.  The state is the six widget values (kept by Streamlit under   *)
(* the widgets' keys) together with everything the last execution          *)
(* produced: the data frame, the point estimate, the two metric labels,    *)
(* the artists put on the axes and whether the figure reached st.pyplot.   *)
(* There is one action per widget: it stores the new value and runs the    *)
(* script from top to bottom.                                              *)
(*                                                                         *)
(* Numbers.  Widget values are kept as integers in the unit of the         *)
(* widget's step: z and factor in hundredths, tea, bias, cv and the        *)
(* reference size in tenths.  The x axis (the CV samples of np.linspace,   *)
(* the chosen CV and their distances) is modelled in IEEE-754 double       *)
(* precision with round-to-nearest-even, because the nearest-sample lookup *)
(* compares distances that differ only in the last bits; a slider is taken *)
(* to return the double nearest to its decimal position.  The y axis (the  *)
(* formula chain of lines 48-55, the labels and the interpolated values)   *)
(* is modelled in exact rational arithmetic extended with +inf, -inf and   *)
(* NaN for the division by factor: the comparisons of lines 66-102 decide  *)
(* on differences of at least 1e-4 mm or on values that are equal in       *)
(* double precision too (sample 0 and sample 199, whose CV is exact), so   *)
(* rounding does not change their outcome; an equality between computed    *)
(* sizes is an equality of real numbers, not of doubles.                   *)
(***************************************************************************)
EXTENDS Integers, Sequences, FiniteSets, TLC

(***************************************************************************)
(* IEEE-754 doubles of the x axis.  A non-negative double below 2^21 is    *)
(* held exactly as an integer count of 2^-63, written as four limbs of 21  *)
(* bits, least significant first.                                          *)
(***************************************************************************)
LimbBase == 2^21

MantissaBits == 53

RECURSIVE BitLen(_)
BitLen(n) == IF n = 0 THEN 0 ELSE 1 + BitLen(n \div 2)

BigBitLen(a) ==
    IF a[4] # 0 THEN 63 + BitLen(a[4])
    ELSE IF a[3] # 0 THEN 42 + BitLen(a[3])
    ELSE IF a[2] # 0 THEN 21 + BitLen(a[2])
    ELSE BitLen(a[1])

\* -1, 0 or 1 as a < b, a = b or a > b
BigCmp(a, b) ==
    IF a[4] # b[4] THEN (IF a[4] < b[4] THEN -1 ELSE 1)
    ELSE IF a[3] # b[3] THEN (IF a[3] < b[3] THEN -1 ELSE 1)
    ELSE IF a[2] # b[2] THEN (IF a[2] < b[2] THEN -1 ELSE 1)
    ELSE IF a[1] # b[1] THEN (IF a[1] < b[1] THEN -1 ELSE 1)
    ELSE 0

\* a + n for a small n >= 0
BigAddSmall(a, n) ==
    LET s1 == a[1] + n
        s2 == a[2] + (s1 \div LimbBase)
        s3 == a[3] + (s2 \div LimbBase)
        s4 == a[4] + (s3 \div LimbBase)
    IN  <<s1 % LimbBase, s2 % LimbBase, s3 % LimbBase, s4>>

\* a * n for 0 <= n < 1024
BigMulSmall(a, n) ==
    LET p1 == a[1] * n
        p2 == a[2] * n + (p1 \div LimbBase)
        p3 == a[3] * n + (p2 \div LimbBase)
        p4 == a[4] * n + (p3 \div LimbBase)
    IN  <<p1 % LimbBase, p2 % LimbBase, p3 % LimbBase, p4>>

\* a - b for a >= b
BigSub(a, b) ==
    LET d1 == a[1] - b[1]
        d2 == a[2] - b[2] - (IF d1 < 0 THEN 1 ELSE 0)
        d3 == a[3] - b[3] - (IF d2 < 0 THEN 1 ELSE 0)
        d4 == a[4] - b[4] - (IF d3 < 0 THEN 1 ELSE 0)
    IN  <<d1 % LimbBase, d2 % LimbBase, d3 % LimbBase, d4>>

BigAbsDiff(a, b) == IF BigCmp(a, b) >= 0 THEN BigSub(a, b) ELSE BigSub(b, a)

\* Round-to-nearest-even to 53 significant bits.  sticky tells that bits
\* below the unit were already dropped.  The numbers of this model have at
\* most 68 bits, so the dropped bits lie in the lowest limb.
Round53(a, sticky) ==
    LET drop == BigBitLen(a) - MantissaBits
    IN  IF drop <= 0 THEN a
        ELSE LET unit  == 2^drop
                 low   == a[1] % unit
                 odd   == (a[1] \div unit) % 2 = 1
                 up    == \/ 2 * low > unit
                          \/ 2 * low = unit /\ (sticky \/ odd)
                 trunc == <<a[1] - low, a[2], a[3], a[4]>>
             IN  IF up THEN BigAddSmall(trunc, unit) ELSE trunc

\* The double nearest to p / q, for integers 0 <= p and 0 < q < 1024 with
\* p / q < 2^21: long division, one limb at a time, then rounding.
DoubleOfRatio(p, q) ==
    LET l4 == p \div q
        r4 == p % q
        l3 == (r4 * LimbBase) \div q
        r3 == (r4 * LimbBase) % q
        l2 == (r3 * LimbBase) \div q
        r2 == (r3 * LimbBase) % q
        l1 == (r2 * LimbBase) \div q
        r1 == (r2 * LimbBase) % q
    IN  Round53(<<l1, l2, l3, l4>>, r1 # 0)

\* np.linspace(0, 30, 200): step = delta / div, y = arange(0, num) * step
\* + start, and the last sample is set to stop.
NumSamples == 200

CvStop == 30

LinspaceStep == DoubleOfRatio(CvStop, NumSamples - 1)

Samples == 0 .. (NumSamples - 1)

cv_values ==
    [i \in Samples |->
        IF i = NumSamples - 1 THEN DoubleOfRatio(CvStop, 1)
        ELSE Round53(BigMulSmall(LinspaceStep, i), FALSE)]


(***************************************************************************)
(* Sidebar widgets (lines 12-43).  Every slider value is min + n * step.   *)
(***************************************************************************)
\* confidence_options, in hundredths; index=0 selects the first entry
confidence_options == {165, 233, 196, 258}

ConfidenceDefault == 165

\* "Total Allowable Error (TEa, %)", in tenths
TeaMin == 50

TeaMax == 500

TeaStep == 5

TeaDefault == 250

\* "Analytical Bias (%)", in tenths
BiasMin == 0

BiasMax == 200

BiasDefault == 50

\* "Analytical CV (%)", in tenths
CvMin == 0

CvMax == 300

CvDefault == 87

\* "% change per mm", in hundredths
FactorMin == 0

FactorMax == 500

FactorDefault == 274

\* "Reference DBS diameter", in tenths
RefMin == 100

RefMax == 120

RefDefault == 107

\* The model moves each slider over every Stride-th position of its range,
\* the default position and the positions listed with it.
TeaStride == 30

BiasStride == 100

CvStride == 100

FactorStride == 250

RefStride == 20

Ticks(lo, hi, step, stride, extra) ==
    {v \in lo .. hi : (v - lo) % (step * stride) = 0} \cup extra

TeaTicks == Ticks(TeaMin, TeaMax, TeaStep, TeaStride, {TeaDefault})

BiasTicks == Ticks(BiasMin, BiasMax, 1, BiasStride, {BiasDefault})

\* 15.0 lies midway between the nominal positions of samples 99 and 100
CvTicks == Ticks(CvMin, CvMax, 1, CvStride, {CvDefault, CvMax \div 2, CvMax})

FactorTicks == Ticks(FactorMin, FactorMax, 1, FactorStride, {FactorDefault})

RefTicks == Ticks(RefMin, RefMax, 1, RefStride, {RefDefault})

\* the double a slider returns for the position v / 10
SliderDouble(v) == DoubleOfRatio(v, 10)

(***************************************************************************)
(* Extended reals of the y axis: a finite value is an integer count n of   *)
(* the evaluation's unit, and a division by zero gives +inf, -inf or NaN   *)
(* as pandas does (no exception).                                          *)
(***************************************************************************)
Fin(n) == [k |-> "fin", n |-> n]

PosInf == [k |-> "inf", n |-> 1]

NegInf == [k |-> "inf", n |-> -1]

NaN == [k |-> "nan", n |-> 0]

IsFinite(a) == a.k = "fin"

IsNaN(a) == a.k = "nan"

XAdd(a, b) ==
    IF IsNaN(a) \/ IsNaN(b) THEN NaN
    ELSE IF IsFinite(a) /\ IsFinite(b) THEN Fin(a.n + b.n)
    ELSE IF IsFinite(a) THEN b
    ELSE IF IsFinite(b) THEN a
    ELSE IF a.n = b.n THEN a
    ELSE NaN

XNeg(a) == IF IsNaN(a) THEN NaN ELSE [k |-> a.k, n |-> -a.n]

XSub(a, b) == XAdd(a, XNeg(b))

\* every comparison with NaN is false
XLt(a, b) ==
    /\ ~IsNaN(a)
    /\ ~IsNaN(b)
    /\ IF IsFinite(a) /\ IsFinite(b) THEN a.n < b.n
       ELSE IF IsFinite(a) THEN b.n > 0
       ELSE IF IsFinite(b) THEN a.n < 0
       ELSE a.n < b.n

XEq(a, b) == ~IsNaN(a) /\ ~IsNaN(b) /\ a = b

XLe(a, b) == XLt(a, b) \/ XEq(a, b)

XGt(a, b) == XLt(b, a)

XGe(a, b) == XLe(b, a)

(***************************************************************************)
(* Data calculation (lines 46-55).  The percentages of lines 48-50 are     *)
(* counted in 1/1990 %: sample i lies at 30 i / 199 = 300 i / 1990, and a  *)
(* slider value of v tenths is 199 v / 1990.  The sizes are counted in     *)
(* 1 / (1990 * factor) mm when factor > 0.                                 *)
(***************************************************************************)
PercentUnit == 10 * (NumSamples - 1)

SampleCv(i) == 10 * CvStop * i

Tenths(v) == (NumSamples - 1) * v

SizeScale(f) == IF f = 0 THEN 1 ELSE f

\* a length of v tenths of a mm, in the size unit
Mm(v, f) == Fin(Tenths(v) * SizeScale(f))

\* df["z×CV (%)"] = z * df["Analytical CV (%)"]; z in hundredths
ZCv(zv, i) == (zv * SampleCv(i)) \div 100

\* df["Max allowable bias (%)"] = tea_value - df["z×CV (%)"]
MaxAllowableBias(zv, tv, i) == Tenths(tv) - ZCv(zv, i)

\* df["Max bias (DBS)"] = df["Max allowable bias (%)"] - bias_anal_max
MaxBiasDBS(zv, tv, bv, i) == MaxAllowableBias(zv, tv, i) - Tenths(bv)

\* df["Max mm difference"] = df["Max bias (DBS)"] / factor; factor in
\* hundredths, so (b / 1990) / (f / 100) = 100 b / (1990 f)
MaxMmDifference(b, f) ==
    IF f # 0 THEN Fin(100 * b)
    ELSE IF b > 0 THEN PosInf
    ELSE IF b < 0 THEN NegInf
    ELSE NaN

\* Mutant of MinSize: the bound is clamped to zero inside the curve.
MinSizeClamped(ref, mm) ==
    IF XLt(XSub(ref, mm), Fin(0)) THEN Fin(0) ELSE XSub(ref, mm)

\* df["Min size"] = reference_size - df["Max mm difference"]
MinSize(ref, mm) == XSub(ref, mm)

\* Mutant of MaxSize: the difference is subtracted, as for the minimum.
MaxSizeSubtracted(ref, mm) == XSub(ref, mm)

\* df["Max size"] = reference_size + df["Max mm difference"]
MaxSize(ref, mm) == XAdd(ref, mm)

Row(zv, tv, bv, fv, rv, i) ==
    LET b  == MaxBiasDBS(zv, tv, bv, i)
        mm == MaxMmDifference(b, fv)
    IN  [zcv   |-> ZCv(zv, i),
         allow |-> MaxAllowableBias(zv, tv, i),
         bias  |-> b,
         mm    |-> mm,
         min   |-> MinSize(Mm(rv, fv), mm),
         max   |-> MaxSize(Mm(rv, fv), mm)]

DataFrame(zv, tv, bv, fv, rv) == [i \in Samples |-> Row(zv, tv, bv, fv, rv, i)]

\* the frames of every combination of widget values, computed once
Inputs ==
    {<<zv, tv, bv, fv, rv>> : zv \in confidence_options, tv \in TeaTicks,
                              bv \in BiasTicks, fv \in FactorTicks, rv \in RefTicks}

FrameOf == [p \in Inputs |-> DataFrame(p[1], p[2], p[3], p[4], p[5])]

(***************************************************************************)
(* Point estimate for the chosen CV (line 58):                             *)
(*   df.iloc[(df["Analytical CV (%)"] - cv_value).abs().argsort()[:1]]     *)
(***************************************************************************)
\* (df["Analytical CV (%)"] - cv_value).abs(), element i
AbsDiff(i, cv) == Round53(BigAbsDiff(cv_values[i], SliderDouble(cv)), FALSE)

\* the series of distances, for every position of the CV slider in the model
AbsDiffOf == [cv \in CvTicks |-> [i \in Samples |-> AbsDiff(i, cv)]]

RECURSIVE SmallestAbsDiff(_, _, _)
SmallestAbsDiff(lo, hi, cv) ==
    IF lo = hi THEN AbsDiffOf[cv][lo]
    ELSE LET mid == (lo + hi) \div 2
             a   == SmallestAbsDiff(lo, mid, cv)
             b   == SmallestAbsDiff(mid + 1, hi, cv)
         IN  IF BigCmp(a, b) <= 0 THEN a ELSE b

\* Mutant of ArgsortFirst: the sample at or below the chosen CV instead of
\* the nearest one.
ArgsortFirstBelow(cv) ==
    {i \in Samples :
        /\ BigCmp(cv_values[i], SliderDouble(cv)) <= 0
        /\ i < NumSamples - 1 => BigCmp(SliderDouble(cv), cv_values[i + 1]) < 0}

\* The indices an ascending sort can put first.  argsort's default kind,
\* quicksort, is not stable: among equal elements any may come first.
ArgsortFirst(cv) ==
    LET m == SmallestAbsDiff(0, NumSamples - 1, cv)
    IN  {i \in Samples : AbsDiffOf[cv][i] = m}

NearestOf == [cv \in CvTicks |-> ArgsortFirst(cv)]

(***************************************************************************)
(* Metric labels (lines 66-76).                                            *)
(***************************************************************************)
TwoDigits(n) == ToString(n \div 10) \o ToString(n % 10)

\* f"{v:.2f}" of a finite v >= 0 counted in 1/den: round-half-even to
\* hundredths
FormatFixed2(n, den) ==
    LET whole == n \div den
        frac  == 100 * (n % den)
        h     == frac \div den
        rest  == frac % den
        up    == 2 * rest > den \/ (2 * rest = den /\ h % 2 = 1)
        cents == 100 * whole + h + (IF up THEN 1 ELSE 0)
    IN  ToString(cents \div 100) \o "." \o TwoDigits(cents % 100)

Format2(v, den) ==
    IF IsNaN(v) THEN "nan"
    ELSE IF ~IsFinite(v) THEN (IF v.n > 0 THEN "inf" ELSE "-inf")
    ELSE IF v.n < 0 THEN "-" \o FormatFixed2(-v.n, den)
    ELSE FormatFixed2(v.n, den)

\* Mutant of MinDisplay: a negative minimum is formatted, not clamped.
MinDisplayUnclamped(minv, ref, den) ==
    IF XGt(minv, ref) THEN "Not feasible" ELSE Format2(minv, den)

MinDisplay(minv, ref, den) ==
    IF XGt(minv, ref) THEN "Not feasible"
    ELSE IF XLt(minv, Fin(0)) THEN "0"
    ELSE Format2(minv, den)

MaxDisplay(maxv, ref, den) ==
    IF XLt(maxv, ref) THEN "Not feasible"
    ELSE Format2(maxv, den)

(***************************************************************************)
(* Plotting (lines 83-164).                                                *)
(***************************************************************************)
\* Series.max() skips NaN
MaxSkipNa(a, b) ==
    IF IsNaN(a) THEN b
    ELSE IF IsNaN(b) THEN a
    ELSE IF XLt(a, b) THEN b ELSE a

RECURSIVE SeriesMax(_, _, _)
SeriesMax(frame, lo, hi) ==
    IF lo = hi THEN frame[lo].max
    ELSE LET mid == (lo + hi) \div 2
         IN  MaxSkipNa(SeriesMax(frame, lo, mid), SeriesMax(frame, mid + 1, hi))

\* y_max.max() + 1
YTop(frame, fv) == XAdd(SeriesMax(frame, 0, NumSamples - 1), Mm(10, fv))

YTopOf == [p \in Inputs |-> YTop(FrameOf[p], p[4])]

\* 0 <= min_dbs_size <= reference_size and max_dbs_size >= reference_size
GuideFeasible(minv, maxv, ref) ==
    XLe(Fin(0), minv) /\ XLe(minv, ref) /\ XGe(maxv, ref)

\* np.interp locates j with xp[j] <= x < xp[j+1] by binary search
RECURSIVE InterpIndex(_, _, _)
InterpIndex(lo, hi, xd) ==
    IF hi - lo <= 1 THEN lo
    ELSE LET mid == (lo + hi) \div 2
         IN  IF BigCmp(xd, cv_values[mid]) >= 0 THEN InterpIndex(mid, hi, xd)
             ELSE InterpIndex(lo, mid, xd)

BracketOf == [cv \in CvTicks |-> InterpIndex(0, NumSamples, SliderDouble(cv))]

\* Mutant of Interp: an exact hit of xp[j] returns the sample to the right.
InterpRightNeighbour(cv, j, fp) ==
    IF j = NumSamples - 1 THEN fp[j]
    ELSE IF SliderDouble(cv) = cv_values[j] THEN fp[j + 1]
    ELSE Fin(fp[j].n + ((fp[j + 1].n - fp[j].n) * (Tenths(cv) - SampleCv(j)))
                          \div (SampleCv(j + 1) - SampleCv(j)))

\* np.interp(cv_value, x, fp): fp[j] at the last sample and where x equals
\* xp[j], otherwise slope * (x - xp[j]) + fp[j]
Interp(cv, j, fp) ==
    IF j = NumSamples - 1 THEN fp[j]
    ELSE IF SliderDouble(cv) = cv_values[j] THEN fp[j]
    ELSE Fin(fp[j].n + ((fp[j + 1].n - fp[j].n) * (Tenths(cv) - SampleCv(j)))
                          \div (SampleCv(j + 1) - SampleCv(j)))

(***************************************************************************)
(* State: the widget values and the outcome of the last run of the script. *)
(***************************************************************************)
VARIABLES
    z,               \* confidence factor, hundredths
    tea_value,       \* tenths of a percent
    bias_anal_max,   \* tenths of a percent
    cv_value,        \* tenths of a percent
    factor,          \* hundredths of a percent per mm
    reference_size,  \* tenths of a mm
    df,              \* the data frame, one row per sample
    chosen,          \* index of the row taken as the point estimate
    min_dbs_size,
    max_dbs_size,
    min_display,     \* value of the first st.metric
    max_display,     \* value of the second st.metric
    y_chosen_min,    \* guide values, Unset when the branch was not taken
    y_chosen_max,
    ax,              \* the artists added to the axes
    pyplot           \* "shown", or the exception that ended the run

widgets == <<z, tea_value, bias_anal_max, cv_value, factor, reference_size>>

vars == <<z, tea_value, bias_anal_max, cv_value, factor, reference_size,
          df, chosen, min_dbs_size, max_dbs_size, min_display, max_display,
          y_chosen_min, y_chosen_max, ax, pyplot>>

Unset == [k |-> "unset", n |-> 0]

\* the denominator of the size unit
SizeDen(fv) == PercentUnit * SizeScale(fv)

\* ax.set_ylim(0, y_max.max() + 1) raises ValueError("Axis limits cannot be
\* NaN or Inf") for a limit that is not finite; st.pyplot is then not reached
SetYlim(top) == IF IsFinite(top) THEN "shown" ELSE "ValueError"

\* One execution of the script with the given widget values; idx is the row
\* that argsort puts first.  The result is what the run leaves behind.
Script(zv, tv, bv, cv, fv, rv, idx) ==
    LET frame == FrameOf[<<zv, tv, bv, fv, rv>>]
        ref   == Mm(rv, fv)
        minv  == frame[idx].min
        maxv  == frame[idx].max
        guide == GuideFeasible(minv, maxv, ref)
        j     == BracketOf[cv]
    IN  [df           |-> frame,
         chosen       |-> idx,
         min_dbs_size |-> minv,
         max_dbs_size |-> maxv,
         min_display  |-> MinDisplay(minv, ref, SizeDen(fv)),
         max_display  |-> MaxDisplay(maxv, ref, SizeDen(fv)),
         y_chosen_min |-> IF guide
                          THEN Interp(cv, j, [i \in Samples |-> frame[i].min])
                          ELSE Unset,
         y_chosen_max |-> IF guide
                          THEN Interp(cv, j, [i \in Samples |-> frame[i].max])
                          ELSE Unset,
         ax           |-> {"fill_between", "plot", "vlines"}
                            \cup (IF guide THEN {"hlines", "scatter"} ELSE {}),
         pyplot       |-> SetYlim(YTopOf[<<zv, tv, bv, fv, rv>>])]

Run(zv, tv, bv, cv, fv, rv) ==
    /\ z' = zv
    /\ tea_value' = tv
    /\ bias_anal_max' = bv
    /\ cv_value' = cv
    /\ factor' = fv
    /\ reference_size' = rv
    /\ \E idx \in NearestOf[cv] :
          \E out \in {Script(zv, tv, bv, cv, fv, rv, idx)} :
              /\ df' = out.df
              /\ chosen' = out.chosen
              /\ min_dbs_size' = out.min_dbs_size
              /\ max_dbs_size' = out.max_dbs_size
              /\ min_display' = out.min_display
              /\ max_display' = out.max_display
              /\ y_chosen_min' = out.y_chosen_min
              /\ y_chosen_max' = out.y_chosen_max
              /\ ax' = out.ax
              /\ pyplot' = out.pyplot

\* The first run, with every widget at its default.
Init ==
    /\ z = ConfidenceDefault
    /\ tea_value = TeaDefault
    /\ bias_anal_max = BiasDefault
    /\ cv_value = CvDefault
    /\ factor = FactorDefault
    /\ reference_size = RefDefault
    /\ \E idx \in NearestOf[CvDefault] :
          \E out \in {Script(ConfidenceDefault, TeaDefault, BiasDefault,
                             CvDefault, FactorDefault, RefDefault, idx)} :
              /\ df = out.df
              /\ chosen = out.chosen
              /\ min_dbs_size = out.min_dbs_size
              /\ max_dbs_size = out.max_dbs_size
              /\ min_display = out.min_display
              /\ max_display = out.max_display
              /\ y_chosen_min = out.y_chosen_min
              /\ y_chosen_max = out.y_chosen_max
              /\ ax = out.ax
              /\ pyplot = out.pyplot

\* A widget changes and Streamlit reruns the script.
SetConfidence ==
    \E v \in confidence_options \ {z} :
        Run(v, tea_value, bias_anal_max, cv_value, factor, reference_size)

SetTea ==
    \E v \in TeaTicks \ {tea_value} :
        Run(z, v, bias_anal_max, cv_value, factor, reference_size)

SetBias ==
    \E v \in BiasTicks \ {bias_anal_max} :
        Run(z, tea_value, v, cv_value, factor, reference_size)

SetCv ==
    \E v \in CvTicks \ {cv_value} :
        Run(z, tea_value, bias_anal_max, v, factor, reference_size)

SetFactor ==
    \E v \in FactorTicks \ {factor} :
        Run(z, tea_value, bias_anal_max, cv_value, v, reference_size)

SetReference ==
    \E v \in RefTicks \ {reference_size} :
        Run(z, tea_value, bias_anal_max, cv_value, factor, v)

Next ==
    \/ SetConfidence
    \/ SetTea
    \/ SetBias
    \/ SetCv
    \/ SetFactor
    \/ SetReference

Spec == Init /\ [][Next]_vars


(***************************************************************************)
(* Properties.                                                             *)
(***************************************************************************)
Ref == Mm(reference_size, factor)

AtDefaults ==
    /\ z = ConfidenceDefault
    /\ tea_value = TeaDefault
    /\ bias_anal_max = BiasDefault
    /\ cv_value = CvDefault
    /\ factor = FactorDefault
    /\ reference_size = RefDefault

\* C1: the point estimate is the chosen row, and the two labels follow the
\* feasibility policy in this order: the minimum is "Not feasible" when it
\* exceeds the reference size, otherwise "0" when it is negative, otherwise
\* the value to 2 decimals; the maximum is "Not feasible" when it is below
\* the reference size, otherwise the value to 2 decimals.  An infeasible
\* result is a label: both metrics always carry a string, and a run ends in
\* an exception only when factor = 0, feasible or not.
LabelPolicy ==
    /\ min_dbs_size = df[chosen].min
    /\ max_dbs_size = df[chosen].max
    /\ min_display \in STRING
    /\ max_display \in STRING
    /\ XGt(min_dbs_size, Ref) => min_display = "Not feasible"
    /\ ~XGt(min_dbs_size, Ref) /\ XLt(min_dbs_size, Fin(0)) => min_display = "0"
    /\ ~XGt(min_dbs_size, Ref) /\ ~XLt(min_dbs_size, Fin(0))
          => min_display = Format2(min_dbs_size, SizeDen(factor))
    /\ XLt(max_dbs_size, Ref) => max_display = "Not feasible"
    /\ ~XLt(max_dbs_size, Ref)
          => max_display = Format2(max_dbs_size, SizeDen(factor))
    /\ pyplot # "shown" => factor = 0

\* a run with a negative minimum, shown clamped, next to a computed maximum
ClampedLabelShown ==
    /\ IsFinite(min_dbs_size)
    /\ min_dbs_size.n < 0
    /\ min_display = "0"
    /\ max_display \notin {"Not feasible", "0"}
    /\ pyplot = "shown"

\* C2 as stated: the guide lines and markers are on the chart exactly when
\* 0 <= minSize <= referenceSize and maxSize >= referenceSize, and the
\* vertical marker is on the chart in every case.
GuidesIffFeasibleVlineAlways ==
    LET feasible == /\ XLe(Fin(0), min_dbs_size)
                    /\ XLe(min_dbs_size, Ref)
                    /\ XGe(max_dbs_size, Ref)
    IN  /\ feasible => {"hlines", "scatter"} \subseteq ax
        /\ ~feasible => ax \cap {"hlines", "scatter"} = {}
        /\ min_display \in {"Not feasible", "0"} => ax \cap {"hlines", "scatter"} = {}
        /\ max_display = "Not feasible" => ax \cap {"hlines", "scatter"} = {}
        /\ "vlines" \in ax
        /\ pyplot = "shown"

\* C3 as stated: the chosen row is the lowest-index sample among those whose
\* position 30 i / 199 is nearest to the chosen CV (at 15.0, sample 99).
NominalDistance(i) ==
    IF SampleCv(i) >= Tenths(cv_value) THEN SampleCv(i) - Tenths(cv_value)
    ELSE Tenths(cv_value) - SampleCv(i)

LowestIndexAmongNearest ==
    /\ \A j \in Samples : NominalDistance(chosen) <= NominalDistance(j)
    /\ \A j \in Samples : j < chosen => NominalDistance(chosen) < NominalDistance(j)

\* At no position of the CV slider, 0.0 to 30.0 in steps of 0.1, are the two
\* samples that bracket it (the only candidates for the nearest) at the same
\* double-precision distance.
NoTieForNearest ==
    \A cv \in CvMin .. CvMax :
        LET j == InterpIndex(0, NumSamples, SliderDouble(cv))
        IN  j < NumSamples - 1 => AbsDiff(j, cv) # AbsDiff(j + 1, cv)

\* C3, amended: the chosen row is the one sample whose double-precision CV
\* is strictly nearest to the chosen CV; no slider position has two samples
\* tied for the nearest, so no tie is ever broken, and at 15.0 the chosen row
\* is sample 100, not 99.
NearestSampleIsUnique ==
    /\ \A j \in Samples \ {chosen} :
          BigCmp(AbsDiffOf[cv_value][chosen], AbsDiffOf[cv_value][j]) < 0
    /\ min_dbs_size = df[chosen].min
    /\ max_dbs_size = df[chosen].max
    /\ 2 * cv_value = CvMax => chosen = NumSamples \div 2
    /\ NoTieForNearest

MidpointChoosesUpperSample ==
    /\ 2 * cv_value = CvMax
    /\ NominalDistance(99) = NominalDistance(100)
    /\ chosen = 100

\* C4: no row of the frame is clamped: every row holds reference -/+
\* (tea - z * cv - bias) / factor, also when negative; a minimum displayed
\* as "0" leaves the chosen row, and every other, at the computed value.
ExpectedBias(i) ==
    (NumSamples - 1) * (tea_value - bias_anal_max) - 3 * z * i

ExpectedMm(i) ==
    IF factor > 0 THEN Fin(100 * ExpectedBias(i))
    ELSE IF ExpectedBias(i) > 0 THEN PosInf
    ELSE IF ExpectedBias(i) < 0 THEN NegInf
    ELSE NaN

CurveNeverClamped ==
    /\ \A i \in Samples :
          /\ df[i].min = XSub(Ref, ExpectedMm(i))
          /\ df[i].max = XAdd(Ref, ExpectedMm(i))
    /\ min_display = "0" =>
          /\ XLt(df[chosen].min, Fin(0))
          /\ min_dbs_size = df[chosen].min

ClampedRowKeepsNegative ==
    /\ min_display = "0"
    /\ IsFinite(df[chosen].min)
    /\ df[chosen].min.n < 0
    /\ \E i \in Samples : IsFinite(df[i].min) /\ df[i].min.n > 0

\* C5 as stated: with factor = 0 the run completes and the chart is shown.
FactorZeroCompletes == factor = 0 => pyplot = "shown"

\* C6 as stated: along the curve every later sample has a strictly smaller
\* maxMmDifference (z > 0 always), and a larger tea with the other widgets
\* unchanged gives a strictly larger maxMmDifference at every sample.
DecreasingInCv ==
    \A i \in Samples \ {NumSamples - 1} : XLt(df[i + 1].mm, df[i].mm)

IncreasingInTea ==
    (tea_value' > tea_value /\ UNCHANGED <<z, bias_anal_max, factor>>)
        => \A i \in Samples : XGt(df'[i].mm, df[i].mm)

Monotonicity == [](z > 0 => DecreasingInCv) /\ [][IncreasingInTea]_vars

\* C7 as stated: at every sample maxSize - minSize = 2 * maxMmDifference and
\* minSize + maxSize = 2 * referenceSize.
SymmetricAroundReference ==
    \A i \in Samples :
        /\ XEq(XSub(df[i].max, df[i].min), XAdd(df[i].mm, df[i].mm))
        /\ XEq(XAdd(df[i].min, df[i].max), XAdd(Ref, Ref))

\* C8: where the chosen CV is exactly the double of sample j, the
\* interpolation returns that row's sizes, the nearest-sample point
\* estimate is that same row, and the guide values, when drawn, equal it.
InterpExactAtGridPoint ==
    \A j \in Samples :
        SliderDouble(cv_value) = cv_values[j] =>
            /\ Interp(cv_value, BracketOf[cv_value], [i \in Samples |-> df[i].min])
                  = df[j].min
            /\ Interp(cv_value, BracketOf[cv_value], [i \in Samples |-> df[i].max])
                  = df[j].max
            /\ chosen = j
            /\ "hlines" \in ax =>
                  /\ y_chosen_min = min_dbs_size
                  /\ y_chosen_max = max_dbs_size

GuidesAtGridPoint ==
    /\ SliderDouble(cv_value) = cv_values[NumSamples - 1]
    /\ "hlines" \in ax
    /\ y_chosen_min = df[NumSamples - 1].min
    /\ y_chosen_max = df[NumSamples - 1].max
    /\ XLt(y_chosen_min, y_chosen_max)

\* C9 as stated: with every widget at its default the metrics read 8.64
\* and 12.76.
DefaultsReport == AtDefaults => min_display = "8.64" /\ max_display = "12.76"

\* C10: with factor > 0 the minimum is "Not feasible" exactly when the
\* maximum is; minSize > referenceSize exactly when maxSize < referenceSize;
\* and minSize <= referenceSize implies maxSize >= referenceSize.
InfeasibleTogether ==
    factor > 0 =>
        /\ min_display = "Not feasible" <=> max_display = "Not feasible"
        /\ XGt(min_dbs_size, Ref) <=> XLt(max_dbs_size, Ref)
        /\ XLe(min_dbs_size, Ref) => XGe(max_dbs_size, Ref)

BothNotFeasible ==
    /\ factor > 0
    /\ XGt(min_dbs_size, Ref)
    /\ min_display = "Not feasible"
    /\ max_display = "Not feasible"
====
